---- MODULE Spec2Model ----
(***************************************************************************)
(* A model of the Google Drive MCP server: the path resolver               *)
(* (getOrCreateFolderPath), the drive operations of package driveapi and   *)
(* the tool handlers registered in cmd/server/main.go.                     *)
(*                                                                         *)
(* The remote Drive backend is modelled as two append-only sequences       *)
(* (folders and files); one remote call is one atomic step, and every      *)
(* remote call may fail.  A Go string is a sequence of one-character       *)
(* strings, so that splitting, suffix and prefix tests are computed.       *)
(***************************************************************************)
EXTENDS Naturals, Sequences, FiniteSets

VARIABLES
    folders,   \* the backend's folders, in creation order; folder i has id i
    files,     \* the backend's files, in creation order
    pc,        \* per request slot: the position of the running call
    req,       \* per request slot: the invocation (tool or function, arguments)
    loc,       \* per request slot: the local variables of the running call
    calls,     \* per request slot: the remote calls issued by the running call
    res,       \* per request slot: what the driveapi function returned
    ret,       \* per request slot: what the tool handler returned
    preLen,    \* per request slot: Len(folders) when the call started
    preFiles,  \* per request slot: Len(files) when the call started
    srvPages   \* the pages the backend serves for the running search

vars == <<folders, files, pc, req, loc, calls, res, ret, preLen, preFiles, srvPages>>

----------------------------------------------------------------------------
(* Bounds of the model. *)

\* concurrent resolutions: the backend holds at most this many folders
MaxFolders == 3

\* tools, one at a time: the backend holds at most this many folders
MaxToolFolders == 2

\* resolutions one after the other: the backend holds at most this many
\* folders
MaxTwiceFolders == 4

\* the backend holds at most this many files
MaxFiles == 1

\* a search result has at most this many pages
MaxPages == 2

\* a page holds at most this many items
MaxPageLen == 2

----------------------------------------------------------------------------
(* Strings: package strings and path/filepath, computed on sequences of    *)
(* characters.                                                             *)

Slash == "/"
Dot == "."

\* strings.ToLower on the letters the inputs use
LowerChar(c) ==
    CASE c = "D" -> "d"
      [] c = "O" -> "o"
      [] c = "C" -> "c"
      [] c = "X" -> "x"
      [] c = "R" -> "r"
      [] c = "P" -> "p"
      [] c = "Q" -> "q"
      [] c = "N" -> "n"
      [] c = "G" -> "g"
      [] OTHER -> c

ToLower(s) == [i \in 1..Len(s) |-> LowerChar(s[i])]

HasSuffix(s, suffix) ==
    /\ Len(s) >= Len(suffix)
    /\ SubSeq(s, Len(s) - Len(suffix) + 1, Len(s)) = suffix

HasPrefix(s, prefix) ==
    /\ Len(s) >= Len(prefix)
    /\ SubSeq(s, 1, Len(prefix)) = prefix

\* the index of the last "/" of s, 0 when there is none
LastSlash(s) ==
    IF \E i \in 1..Len(s) : s[i] = Slash
    THEN CHOOSE i \in 1..Len(s) : s[i] = Slash /\ \A j \in (i + 1)..Len(s) : s[j] # Slash
    ELSE 0

\* the index of the first "/" of s, 0 when there is none
FirstSlash(s) ==
    IF \E i \in 1..Len(s) : s[i] = Slash
    THEN CHOOSE i \in 1..Len(s) : s[i] = Slash /\ \A j \in 1..(i - 1) : s[j] # Slash
    ELSE 0

\* strings.Split(s, "/"): the substrings between the slashes, empty ones kept
RECURSIVE Split(_)
Split(s) ==
    IF FirstSlash(s) = 0
    THEN <<s>>
    ELSE <<SubSeq(s, 1, FirstSlash(s) - 1)>> \o Split(SubSeq(s, FirstSlash(s) + 1, Len(s)))

\* strings.Join(elems, "/")
RECURSIVE Join(_)
Join(elems) ==
    IF elems = <<>> THEN <<>>
    ELSE IF Len(elems) = 1 THEN elems[1]
    ELSE elems[1] \o <<Slash>> \o Join(Tail(elems))

\* s without its trailing slashes
RECURSIVE StripTrailingSlashes(_)
StripTrailingSlashes(s) ==
    IF s # <<>> /\ s[Len(s)] = Slash
    THEN StripTrailingSlashes(SubSeq(s, 1, Len(s) - 1))
    ELSE s

DotDot == <<Dot, Dot>>

\* the element loop of filepath.Clean: out is the cleaned prefix, dd the
\* number of leading ".." elements of out that cannot be backed over
RECURSIVE CleanElems(_, _, _, _)
CleanElems(elems, out, dd, rooted) ==
    IF elems = <<>> THEN out
    ELSE LET e == Head(elems)
             rest == Tail(elems)
         IN  IF e = <<>> \/ e = <<Dot>>
             THEN CleanElems(rest, out, dd, rooted)
             ELSE IF e = DotDot
             THEN IF Len(out) > dd
                  THEN CleanElems(rest, SubSeq(out, 1, Len(out) - 1), dd, rooted)
                  ELSE IF ~rooted
                  THEN CleanElems(rest, Append(out, e), Len(out) + 1, rooted)
                  ELSE CleanElems(rest, out, dd, rooted)
             ELSE CleanElems(rest, Append(out, e), dd, rooted)

\* filepath.Clean on a slash-separated path
Clean(path) ==
    IF path = <<>> THEN <<Dot>>
    ELSE LET rooted == path[1] = Slash
             out == Join(CleanElems(Split(path), <<>>, 0, rooted))
         IN  IF rooted THEN <<Slash>> \o out
             ELSE IF out = <<>> THEN <<Dot>>
             ELSE out

\* filepath.Base
Base(path) ==
    IF path = <<>> THEN <<Dot>>
    ELSE LET p == StripTrailingSlashes(path)
             q == SubSeq(p, LastSlash(p) + 1, Len(p))
         IN  IF q = <<>> THEN <<Slash>> ELSE q

\* filepath.Dir
Dir(path) == Clean(SubSeq(path, 1, LastSlash(path)))

----------------------------------------------------------------------------
(* Values. *)

\* the two request slots the transport layer may run concurrently
Procs == {"p1", "p2"}

\* the identifier of the storage root ("root")
Root == 0

\* a nil error; an error is the chain of its wrapped messages, outermost first
Nil == <<>>

\* the cause of every failed remote call (network, auth, quota)
RemoteErr == "remote call failed"

\* fmt.Errorf("msg: %w", err)
Wrap(msg, err) == <<msg>> \o err

DocxExt == <<".", "d", "o", "c", "x">>

MimeDocx == <<"a", "p", "p", "l", "i", "c", "a", "t", "i", "o", "n", "/", "v", "n", "d", ".", "o", "p", "e", "n", "x", "m", "l", "f", "o", "r", "m", "a", "t", "s", "-", "o", "f", "f", "i", "c", "e", "d", "o", "c", "u", "m", "e", "n", "t", ".", "w", "o", "r", "d", "p", "r", "o", "c", "e", "s", "s", "i", "n", "g", "m", "l", ".", "d", "o", "c", "u", "m", "e", "n", "t">>

MimeGoogleDoc == <<"a", "p", "p", "l", "i", "c", "a", "t", "i", "o", "n", "/", "v", "n", "d", ".", "g", "o", "o", "g", "l", "e", "-", "a", "p", "p", "s", ".", "d", "o", "c", "u", "m", "e", "n", "t">>

MimePdf == <<"a", "p", "p", "l", "i", "c", "a", "t", "i", "o", "n", "/", "p", "d", "f">>

TextPrefix == <<"t", "e", "x", "t", "/">>

\* all orders in which the backend may list the set S
RECURSIVE Perms(_)
Perms(S) ==
    IF S = {} THEN {<<>>}
    ELSE UNION {{<<x>> \o t : t \in Perms(S \ {x})} : x \in S}

NoReq == [kind |-> "none"]
NoLoc == [none |-> TRUE]
NoRes == [set |-> FALSE]

\* what the backend holds for a search when none runs
NoPages == <<<<>>>>

----------------------------------------------------------------------------
(* The initial state: an empty drive, no request running, nothing to      *)
(* search.                                                                 *)

InitSlots ==
    /\ folders = <<>>
    /\ files = <<>>
    /\ pc = [p \in Procs |-> "idle"]
    /\ req = [p \in Procs |-> NoReq]
    /\ loc = [p \in Procs |-> NoLoc]
    /\ calls = [p \in Procs |-> <<>>]
    /\ res = [p \in Procs |-> NoRes]
    /\ ret = [p \in Procs |-> NoRes]
    /\ preLen = [p \in Procs |-> 0]
    /\ preFiles = [p \in Procs |-> 0]

Init == InitSlots /\ srvPages = NoPages

----------------------------------------------------------------------------
(* The handler boundary (cmd/server/main.go). *)

\* request.RequireString(key)
RequireString(args, key) ==
    IF key \in DOMAIN args
    THEN [val |-> args[key], err |-> Nil]
    ELSE [val |-> <<>>, err |-> <<"required argument not found">>]

\* mcp.NewToolResultError(err.Error()), nil
ToolResultError(err) == [set |-> TRUE, isError |-> TRUE, payload |-> err, err |-> Nil]

\* mcp.NewToolResultText(string(jsonResult)), nil
ToolResultText(val) == [set |-> TRUE, isError |-> FALSE, payload |-> val, err |-> Nil]

\* the map each handler builds from the driveapi result and hands to
\* json.Marshal
Marshal(r, val) ==
    CASE r.kind \in {"create_file_in_path", "create_docx_file_in_path"} ->
            [file_id |-> val.id, file_name |-> val.name]
      [] r.kind = "list_root_folders" ->
            [folders |-> [i \in 1..Len(val) |-> [id |-> val[i].id, name |-> val[i].name]]]
      [] r.kind = "suggest_folder_for_content" -> [suggested_folder_id |-> val]
      [] r.kind = "list_files_and_folders" -> [files |-> val]
      [] r.kind = "search_drive_items" -> [found_items |-> val]
      [] r.kind = "read_file_content" -> [content |-> val]
      [] OTHER -> val

\* (a mutant of HandlerReturn: a drive failure returned as the handler's error)
HandlerReturnPropagates(r, val, err) ==
    IF err # Nil
    THEN [set |-> TRUE, isError |-> TRUE, payload |-> err, err |-> err]
    ELSE ToolResultText(Marshal(r, val))

\* the tail of every handler: the driveapi result turned into a tool result
HandlerReturn(r, val, err) ==
    IF err # Nil THEN ToolResultError(err) ELSE ToolResultText(Marshal(r, val))

IsTool(r) == r.kind \notin {"none", "resolve", "update_docx"}

\* the running call r of slot p returns (val, err); a tool handler wraps it
Finish(p, r, val, err) ==
    /\ pc' = [pc EXCEPT ![p] = "done"]
    /\ res' = [res EXCEPT ![p] = [set |-> TRUE, val |-> val, err |-> err]]
    /\ ret' = [ret EXCEPT ![p] = IF IsTool(r) THEN HandlerReturn(r, val, err) ELSE NoRes]

\* a handler returns a tool result before it calls into driveapi
Return(p, result) ==
    /\ pc' = [pc EXCEPT ![p] = "done"]
    /\ loc' = [loc EXCEPT ![p] = NoLoc]
    /\ res' = [res EXCEPT ![p] = NoRes]
    /\ ret' = [ret EXCEPT ![p] = result]

\* the call of slot p goes on at position at with the locals l
Goto(p, at, l) ==
    /\ pc' = [pc EXCEPT ![p] = at]
    /\ loc' = [loc EXCEPT ![p] = l]
    /\ res' = [res EXCEPT ![p] = NoRes]
    /\ ret' = [ret EXCEPT ![p] = NoRes]

----------------------------------------------------------------------------
(* FindFolderIDByName (pkg/driveapi/folders.go). *)

\* (a mutant of MatchingFolders: the query always says 'root' in parents)
MatchingFoldersInRoot(folderName, parentID) ==
    {i \in 1..Len(folders) :
        folders[i].name = folderName /\ folders[i].parent = Root}

\* the folders the lookup's query selects: that name, under that parent
MatchingFolders(folderName, parentID) ==
    {i \in 1..Len(folders) :
        folders[i].name = folderName /\ folders[i].parent = parentID}

\* what the backend may answer to the lookup: a failure, or the matching
\* folders in any order
ListOutcomes(folderName, parentID) ==
    {[ok |-> FALSE, files |-> <<>>]}
    \cup {[ok |-> TRUE, files |-> l] : l \in Perms(MatchingFolders(folderName, parentID))}

\* (a mutant of FindFolderIDByName: the last item of the listing is taken)
FindFolderIDByNameLast(r) ==
    IF ~r.ok THEN [id |-> Root, err |-> Wrap("unable to find folder", <<RemoteErr>>)]
    ELSE IF Len(r.files) = 0 THEN [id |-> Root, err |-> <<"folder not found">>]
    ELSE [id |-> r.files[Len(r.files)], err |-> Nil]

\* FindFolderIDByName, given the backend's answer r
FindFolderIDByName(r) ==
    IF ~r.ok THEN [id |-> Root, err |-> Wrap("unable to find folder", <<RemoteErr>>)]
    ELSE IF Len(r.files) = 0 THEN [id |-> Root, err |-> <<"folder not found">>]
    ELSE [id |-> r.files[1], err |-> Nil]

----------------------------------------------------------------------------
(* getOrCreateFolderPath (pkg/driveapi/files.go). *)

\* (a mutant of IsRootPath: only "/" returns early)
IsRootPathSlashOnly(folderPath) == folderPath = <<Slash>>

\* the early return: "." and "/" are the root
IsRootPath(folderPath) == folderPath = <<Dot>> \/ folderPath = <<Slash>>

\* (a mutant of NextPart: an empty part is not skipped)
NextPartKeepsEmpty(parts, i) == IF i < Len(parts) THEN i + 1 ELSE 0

\* the index of the first non-empty part after index i, 0 when there is none
NextPart(parts, i) ==
    IF \E j \in (i + 1)..Len(parts) : parts[j] # <<>>
    THEN CHOOSE j \in (i + 1)..Len(parts) :
            parts[j] # <<>> /\ \A k \in (i + 1)..(j - 1) : parts[k] = <<>>
    ELSE 0

\* the non-empty parts of a folder path: the segments the loop visits
Segments(folderPath) ==
    IF IsRootPath(folderPath) THEN <<>>
    ELSE SelectSeq(Split(folderPath), LAMBDA e : e # <<>>)

\* the local variables of a call that resolves folderPath
ResolveLocals(fileName, folderPath) ==
    [fileName |-> fileName,
     folderPath |-> folderPath,
     parts |-> IF IsRootPath(folderPath) THEN <<>> ELSE Split(folderPath),
     i |-> 0,
     cur |-> Root]

\* path resolution has returned id to its caller, whose locals are l: a
\* direct call returns it, a file creation goes on to its file call, an
\* update to the lookup of the file
Resolved(p, r, l, id) ==
    /\ loc' = [loc EXCEPT ![p] = [l EXCEPT !.cur = id]]
    /\ IF r.kind \in {"resolve", "suggest_folder_for_content"}
       THEN Finish(p, r, id, Nil)
       ELSE /\ pc' = [pc EXCEPT ![p] = IF r.kind = "update_docx" THEN "findfile" ELSE "mkfile"]
            /\ res' = [res EXCEPT ![p] = NoRes]
            /\ ret' = [ret EXCEPT ![p] = NoRes]

\* the loop moves past part l.i with currentParentID = id
Advance(p, r, l, id) ==
    LET j == NextPart(l.parts, l.i)
    IN  IF j = 0
        THEN Resolved(p, r, l, id)
        ELSE /\ pc' = [pc EXCEPT ![p] = "find"]
             /\ loc' = [loc EXCEPT ![p] = [l EXCEPT !.cur = id, !.i = j]]
             /\ res' = [res EXCEPT ![p] = NoRes]
             /\ ret' = [ret EXCEPT ![p] = NoRes]

\* the error path resolution returns when a folder creation fails, as its
\* caller passes it on
ResolveError(kind) ==
    IF kind = "resolve"
    THEN Wrap("unable to create folder", <<RemoteErr>>)
    ELSE Wrap("failed to get or create folder path",
              Wrap("unable to create folder", <<RemoteErr>>))

\* the record of one remote call: the operation, its arguments, whether it
\* succeeded, what it returned, and how many folders the backend held then
Call(op, name, parent, ok, out) ==
    [op |-> op, name |-> name, parent |-> parent, ok |-> ok, out |-> out,
     at |-> Len(folders)]

Log(p, c) == calls' = [calls EXCEPT ![p] = Append(calls[p], c)]

\* (a mutant of CreatesAfterLookup: the folder is created in any case)
CreatesAlways(r) == TRUE

\* whether the loop creates the folder after a lookup that returned r
CreatesAfterLookup(r) == r.err # Nil

\* the loop body up to the lookup: FindFolderIDByName(part, currentParentID)
Find(p) ==
    /\ pc[p] = "find"
    /\ LET part == loc[p].parts[loc[p].i]
           parent == loc[p].cur
       IN  \E r \in ListOutcomes(part, parent) :
              LET f == FindFolderIDByName(r)
              IN  /\ Log(p, Call("list", part, parent, r.ok, r.files))
                  /\ IF CreatesAfterLookup(f)
                     THEN /\ pc' = [pc EXCEPT ![p] = "mkdir"]
                          /\ UNCHANGED <<loc, res, ret>>
                     ELSE Advance(p, req[p], loc[p], f.id)
    /\ UNCHANGED <<folders, files, req, preLen, preFiles, srvPages>>

\* (a mutant of StoreFolder: the call overwrites the newest folder)
StoreFolderOverwrite(name, parent) ==
    IF folders = <<>> THEN <<[name |-> name, parent |-> parent]>>
    ELSE [folders EXCEPT ![Len(folders)] = [name |-> name, parent |-> parent]]

\* (a mutant of StoreFolder: the folder is stored under the root)
StoreFolderInRoot(name, parent) == Append(folders, [name |-> name, parent |-> Root])

\* the backend stores a new folder and names it with a fresh identifier
StoreFolder(name, parent) == Append(folders, [name |-> name, parent |-> parent])

\* the outcomes of a creation call: it may always fail, and it fails when
\* the backend, which holds used of at most max items, is full
CreateOutcomes(used, max) == IF used < max THEN BOOLEAN ELSE {FALSE}

\* (a mutant of Mkdir: a failed creation is tried again)
MkdirRetries(p, maxFolders) ==
    /\ pc[p] = "mkdir"
    /\ LET part == loc[p].parts[loc[p].i]
           parent == loc[p].cur
       IN  \E ok \in CreateOutcomes(Len(folders), maxFolders) :
              IF ok
              THEN /\ folders' = StoreFolder(part, parent)
                   /\ Log(p, Call("mkdir", part, parent, TRUE, Len(folders')))
                   /\ Advance(p, req[p], loc[p], Len(folders'))
              ELSE /\ Log(p, Call("mkdir", part, parent, FALSE, Root))
                   /\ UNCHANGED <<folders, loc, pc, res, ret>>
    /\ UNCHANGED <<files, req, preLen, preFiles, srvPages>>

\* (a mutant of Mkdir: a failed creation removes the folders the call
\* created before)
MkdirRollsBack(p, maxFolders) ==
    /\ pc[p] = "mkdir"
    /\ LET part == loc[p].parts[loc[p].i]
           parent == loc[p].cur
       IN  \E ok \in CreateOutcomes(Len(folders), maxFolders) :
              IF ok
              THEN /\ folders' = StoreFolder(part, parent)
                   /\ Log(p, Call("mkdir", part, parent, TRUE, Len(folders')))
                   /\ Advance(p, req[p], loc[p], Len(folders'))
              ELSE /\ Log(p, Call("mkdir", part, parent, FALSE, Root))
                   /\ Finish(p, req[p], <<>>, ResolveError(req[p].kind))
                   /\ folders' = SubSeq(folders, 1, preLen[p])
                   /\ UNCHANGED loc
    /\ UNCHANGED <<files, req, preLen, preFiles, srvPages>>

\* the loop body after a failed lookup: Files.Create of the folder
Mkdir(p, maxFolders) ==
    /\ pc[p] = "mkdir"
    /\ LET part == loc[p].parts[loc[p].i]
           parent == loc[p].cur
       IN  \E ok \in CreateOutcomes(Len(folders), maxFolders) :
              IF ok
              THEN /\ folders' = StoreFolder(part, parent)
                   /\ Log(p, Call("mkdir", part, parent, TRUE, Len(folders')))
                   /\ Advance(p, req[p], loc[p], Len(folders'))
              ELSE /\ Log(p, Call("mkdir", part, parent, FALSE, Root))
                   /\ Finish(p, req[p], <<>>, ResolveError(req[p].kind))
                   /\ UNCHANGED <<folders, loc>>
    /\ UNCHANGED <<files, req, preLen, preFiles, srvPages>>

----------------------------------------------------------------------------
(* Starting a call. *)

\* slot p starts a call: its request, an empty call log, the counts of the
\* backend's folders and files, and what the backend holds if it is a search
Start(p, r, pages) ==
    /\ pc[p] \in {"idle", "done"}
    /\ req' = [req EXCEPT ![p] = r]
    /\ calls' = [calls EXCEPT ![p] = <<>>]
    /\ preLen' = [preLen EXCEPT ![p] = Len(folders)]
    /\ preFiles' = [preFiles EXCEPT ![p] = Len(files)]
    /\ srvPages' = pages

\* a direct call getOrCreateFolderPath(folderPath)
CallResolve(p, folderPath) ==
    /\ Start(p, [kind |-> "resolve", folderPath |-> folderPath], NoPages)
    /\ Advance(p, [kind |-> "resolve"], ResolveLocals(<<>>, folderPath), Root)
    /\ UNCHANGED <<folders, files>>

\* the folder paths of the direct calls of concurrent resolutions
ResolvePaths ==
    { <<"a">>,
      <<"a", "/", "b">> }

----------------------------------------------------------------------------
(* The specification of concurrent path resolutions. *)

Next ==
    \E p \in Procs :
        \/ \E folderPath \in ResolvePaths : CallResolve(p, folderPath)
        \/ Find(p)
        \/ Mkdir(p, MaxFolders)

Spec == Init /\ [][Next]_vars

----------------------------------------------------------------------------
(* CreateFileInPath and CreateDocxFileInPath (pkg/driveapi/files.go) and    *)
(* their handlers.                                                         *)

\* (a mutant of HasDocxExtension: the dot of the extension is not required)
HasDocxLetters(fileName) == HasSuffix(ToLower(fileName), <<"d", "o", "c", "x">>)

\* the extension test of CreateDocxFileInPath
HasDocxExtension(fileName) == HasSuffix(ToLower(fileName), DocxExt)

\* the content every request writes
Content == <<"h", "i">>

\* (a mutant of NewFile: the file is given the root as its parent)
NewFileInRoot(r, l) ==
    [name |-> l.fileName,
     parent |-> Root,
     mime |-> IF r.kind = "create_docx_file_in_path" THEN MimeDocx ELSE <<>>,
     content |-> r.args.content]

\* the file metadata and media of the Files.Create call
NewFile(r, l) ==
    [name |-> l.fileName,
     parent |-> l.cur,
     mime |-> IF r.kind = "create_docx_file_in_path" THEN MimeDocx ELSE <<>>,
     content |-> r.args.content]

\* the handler of create_file_in_path, CreateFileInPath up to its first
\* remote call
HandleCreateFile(p, args) ==
    LET r == [kind |-> "create_file_in_path", args |-> args]
        path == RequireString(args, "path")
        content == RequireString(args, "content")
    IN  /\ Start(p, r, NoPages)
        /\ IF path.err # Nil THEN Return(p, ToolResultError(path.err))
           ELSE IF content.err # Nil THEN Return(p, ToolResultError(content.err))
           ELSE Advance(p, r, ResolveLocals(Base(path.val), Dir(path.val)), Root)
        /\ UNCHANGED <<folders, files>>

\* the handler of create_docx_file_in_path, CreateDocxFileInPath up to its
\* first remote call
HandleCreateDocx(p, args) ==
    LET r == [kind |-> "create_docx_file_in_path", args |-> args]
        path == RequireString(args, "path")
        content == RequireString(args, "content")
    IN  /\ Start(p, r, NoPages)
        /\ IF path.err # Nil THEN Return(p, ToolResultError(path.err))
           ELSE IF content.err # Nil THEN Return(p, ToolResultError(content.err))
           ELSE IF ~HasDocxExtension(Base(path.val))
           THEN /\ Finish(p, r, <<>>, <<"file name must have a .docx extension">>)
                /\ loc' = [loc EXCEPT ![p] = NoLoc]
           ELSE Advance(p, r, ResolveLocals(Base(path.val), Dir(path.val)), Root)
        /\ UNCHANGED <<folders, files>>

\* the Files.Create call of the file, and the return of the handler
Mkfile(p) ==
    /\ pc[p] = "mkfile"
    /\ \E ok \in CreateOutcomes(Len(files), MaxFiles) :
          IF ok
          THEN /\ files' = Append(files, NewFile(req[p], loc[p]))
               /\ Log(p, Call("mkfile", loc[p].fileName, loc[p].cur, TRUE, Len(files')))
               /\ Finish(p, req[p], [id |-> Len(files'), name |-> loc[p].fileName], Nil)
          ELSE /\ Log(p, Call("mkfile", loc[p].fileName, loc[p].cur, FALSE, 0))
               /\ Finish(p, req[p], <<>>, Wrap("unable to create file", <<RemoteErr>>))
               /\ UNCHANGED files
    /\ UNCHANGED <<folders, req, loc, preLen, preFiles, srvPages>>

\* the arguments of the file tools
FilePaths ==
    { <<"f", ".", "t", "x", "t">>,
      <<"a", "/", "f", ".", "t", "x", "t">>,
      <<"a", "/", "f", ".", "d", "o", "c", "x">>,
      <<"a", "/", "b", "/", "f", ".", "D", "O", "C", "X">>,
      <<"a", "/", "m", "y", "d", "o", "c", "x">> }

FileArgs ==
    {[path |-> x, content |-> Content] : x \in FilePaths}
    \cup {[content |-> Content], [path |-> <<"f", ".", "d", "o", "c", "x">>]}

\* the folder paths of the direct calls of a single resolution
AnyFolderPaths ==
    { <<>>, <<".">>, <<"/">>,
      <<"a">>,
      <<"a", "/", "b">>,
      <<"/", "a", "/", "b">>,
      <<"a", "/", "/", "b">>,
      <<"a", "/", "b", "/">> }

----------------------------------------------------------------------------
(* ListRootFolders (folders.go), ListFilesAndFoldersInFolder (files.go) and *)
(* their handlers.                                                         *)

MimeFolder == <<"a", "p", "p", "l", "i", "c", "a", "t", "i", "o", "n", "/", "v", "n", "d", ".", "g", "o", "o", "g", "l", "e", "-", "a", "p", "p", "s", ".", "f", "o", "l", "d", "e", "r">>

\* the ids of the folders whose parent is parentID, in the backend's order
RECURSIVE ChildFolders(_, _)
ChildFolders(n, parentID) ==
    IF n = 0 THEN <<>>
    ELSE ChildFolders(n - 1, parentID)
         \o (IF folders[n].parent = parentID THEN <<n>> ELSE <<>>)

\* the ids of the files whose parent is parentID, in the backend's order
RECURSIVE ChildFiles(_, _)
ChildFiles(n, parentID) ==
    IF n = 0 THEN <<>>
    ELSE ChildFiles(n - 1, parentID)
         \o (IF files[n].parent = parentID THEN <<n>> ELSE <<>>)

FolderItem(i) == [id |-> <<"folder", i>>, name |-> folders[i].name, mime_type |-> MimeFolder]

FileItem(i) == [id |-> <<"file", i>>, name |-> files[i].name, mime_type |-> files[i].mime]

\* the handler of list_root_folders up to the remote call
HandleListRootFolders(p) ==
    /\ Start(p, [kind |-> "list_root_folders"], NoPages)
    /\ Goto(p, "listroot", NoLoc)
    /\ UNCHANGED <<folders, files>>

\* ListRootFolders: one listing call
ListRoot(p) ==
    /\ pc[p] = "listroot"
    /\ \E ok \in BOOLEAN :
          /\ Log(p, Call("list", <<>>, Root, ok, <<>>))
          /\ IF ok
             THEN LET ids == ChildFolders(Len(folders), Root)
                  IN  Finish(p, req[p], [k \in 1..Len(ids) |-> FolderItem(ids[k])], Nil)
             ELSE Finish(p, req[p], <<>>, Wrap("unable to retrieve root folders", <<RemoteErr>>))
    /\ UNCHANGED <<folders, files, req, loc, preLen, preFiles, srvPages>>

\* request.GetString(key, "")
GetString(args, key) == IF key \in DOMAIN args THEN args[key] ELSE <<>>

\* the folder ListFilesAndFoldersInFolder lists: the root when folderID is ""
ListedFolder(folderID) == IF folderID = <<>> THEN Root ELSE folderID[1]

\* the handler of list_files_and_folders up to the remote call
HandleListFilesAndFolders(p, args) ==
    /\ Start(p, [kind |-> "list_files_and_folders", args |-> args], NoPages)
    /\ Goto(p, "listdir", [folderID |-> ListedFolder(GetString(args, "folder_id"))])
    /\ UNCHANGED <<folders, files>>

\* ListFilesAndFoldersInFolder: one listing call
ListDir(p) ==
    /\ pc[p] = "listdir"
    /\ \E ok \in BOOLEAN :
          /\ Log(p, Call("list", <<>>, loc[p].folderID, ok, <<>>))
          /\ IF ok
             THEN LET fo == ChildFolders(Len(folders), loc[p].folderID)
                      fi == ChildFiles(Len(files), loc[p].folderID)
                  IN  Finish(p, req[p],
                             [k \in 1..Len(fo) |-> FolderItem(fo[k])]
                             \o [k \in 1..Len(fi) |-> FileItem(fi[k])], Nil)
             ELSE Finish(p, req[p], <<>>,
                         Wrap("unable to retrieve files and folders", <<RemoteErr>>))
    /\ UNCHANGED <<folders, files, req, loc, preLen, preFiles, srvPages>>

\* the folder_id arguments: absent, the root, a folder
FolderIdArgs == {<<>>, [folder_id |-> <<>>], [folder_id |-> <<Root>>], [folder_id |-> <<1>>]}

----------------------------------------------------------------------------
(* ReadFileContent (pkg/driveapi/files.go) and its handler. *)

\* (a mutant of ReadDispatch: .docx and .pdf files are exported like native
\* documents)
ReadDispatchExportsBinary(mimeType) ==
    IF mimeType \in {MimeGoogleDoc, MimeDocx, MimePdf} THEN "export"
    ELSE IF HasPrefix(mimeType, TextPrefix) THEN "download"
    ELSE "unsupported"

\* the switch on mimeType: which remote call reads the file
ReadDispatch(mimeType) ==
    IF mimeType = MimeGoogleDoc THEN "export"
    ELSE IF mimeType \in {MimeDocx, MimePdf} THEN "download"
    ELSE IF HasPrefix(mimeType, TextPrefix) THEN "download"
    ELSE "unsupported"

\* the message of the error of a failed read call
ReadCallError(mimeType) ==
    IF mimeType = MimeGoogleDoc THEN "unable to export google doc"
    ELSE IF mimeType \in {MimeDocx, MimePdf} THEN "unable to download binary file"
    ELSE "unable to download text file"

\* the handler of read_file_content, ReadFileContent up to its remote call
HandleReadFileContent(p, args) ==
    LET r == [kind |-> "read_file_content", args |-> args]
        fileID == RequireString(args, "file_id")
        mimeType == RequireString(args, "mime_type")
    IN  /\ Start(p, r, NoPages)
        /\ IF fileID.err # Nil THEN Return(p, ToolResultError(fileID.err))
           ELSE IF mimeType.err # Nil THEN Return(p, ToolResultError(mimeType.err))
           ELSE IF ReadDispatch(mimeType.val) = "unsupported"
           THEN /\ Finish(p, r, <<>>, <<"unsupported mime type for reading">>)
                /\ loc' = [loc EXCEPT ![p] = NoLoc]
           ELSE Goto(p, ReadDispatch(mimeType.val),
                     [fileID |-> fileID.val, mimeType |-> mimeType.val])
        /\ UNCHANGED <<folders, files>>

\* Files.Export(fileID, "text/plain").Download() or Files.Get(fileID).Download()
ReadCall(p) ==
    /\ pc[p] \in {"export", "download"}
    /\ \E ok \in BOOLEAN :
          /\ Log(p, Call(pc[p], loc[p].fileID, Root, ok, <<>>))
          /\ IF ok
             THEN /\ pc' = [pc EXCEPT ![p] = "readbody"]
                  /\ UNCHANGED <<res, ret>>
             ELSE Finish(p, req[p], <<>>, Wrap(ReadCallError(loc[p].mimeType), <<RemoteErr>>))
    /\ UNCHANGED <<folders, files, req, loc, preLen, preFiles, srvPages>>

\* buf.ReadFrom(resp.Body): the body is read to its end, or the read fails
ReadBody(p) ==
    /\ pc[p] = "readbody"
    /\ \E ok \in BOOLEAN :
          IF ok
          THEN Finish(p, req[p], <<"content of", loc[p].fileID>>, Nil)
          ELSE Finish(p, req[p], <<>>, Wrap("unable to read file content", <<"read failed">>))
    /\ UNCHANGED <<folders, files, req, loc, calls, preLen, preFiles, srvPages>>

\* the mime_type arguments
MimeTypes ==
    { MimeGoogleDoc, MimeDocx, MimePdf,
      <<"t", "e", "x", "t", "/", "p", "l", "a", "i", "n">>,
      TextPrefix,
      <<"T", "e", "x", "t", "/">>,
      <<"i", "m", "a", "g", "e", "/", "p", "n", "g">>,
      <<>> }

ReadArgs ==
    {[file_id |-> <<"f", "1">>, mime_type |-> m] : m \in MimeTypes}
    \cup {[file_id |-> <<"f", "2">>, mime_type |-> MimeGoogleDoc],
          [file_id |-> <<"f", "1">>], [mime_type |-> MimePdf]}

----------------------------------------------------------------------------
(* The handlers of summarize_content and mcp/list_tools. *)

\* the length above which the placeholder summary truncates
SummaryLimit == 200

PlaceholderPrefix == <<"P", "l", "a", "c", "e", "h", "o", "l", "d", "e", "r", " ", "s", "u", "m", "m", "a", "r", "y", ":", " ">>

\* the placeholder summary of the handler
Summary(content) ==
    PlaceholderPrefix
    \o (IF Len(content) > SummaryLimit
        THEN SubSeq(content, 1, SummaryLimit) \o <<".", ".", ".">>
        ELSE content)

HandleSummarize(p, args) ==
    LET content == RequireString(args, "content")
    IN  /\ Start(p, [kind |-> "summarize_content", args |-> args], NoPages)
        /\ IF content.err # Nil THEN Return(p, ToolResultError(content.err))
           ELSE Return(p, ToolResultText([summary |-> Summary(content.val)]))
        /\ UNCHANGED <<folders, files>>

SummarizeArgs ==
    {<<>>, [content |-> Content], [content |-> [i \in 1..(SummaryLimit + 1) |-> "x"]]}

\* the tools registered with s.AddTool
ToolNames ==
    { "list_root_folders", "create_file_in_path", "create_docx_file_in_path",
      "suggest_folder_for_content", "list_files_and_folders", "search_drive_items",
      "read_file_content", "summarize_content", "mcp/list_tools" }

\* the handler of mcp/list_tools; the names come in the order of a map
\* iteration, which the set leaves open
HandleListTools(p) ==
    /\ Start(p, [kind |-> "mcp/list_tools"], NoPages)
    /\ Return(p, ToolResultText([tools |-> ToolNames]))
    /\ UNCHANGED <<folders, files>>

----------------------------------------------------------------------------
(* SearchDriveItems (pkg/driveapi/files.go) and its handler.  A page token  *)
(* is a string: <<>> is the empty token, <<k>> the token of page k.         *)

EmptyToken == <<>>

\* the backend's answer to a page request: without a token the first page,
\* with the token of page k that page; the answer names the next page, if any
ServePage(token) ==
    LET k == IF token = EmptyToken THEN 1 ELSE token[1]
    IN  [files |-> srvPages[k],
         nextPageToken |-> IF k < Len(srvPages) THEN <<k + 1>> ELSE EmptyToken]

\* the token the request carries: req.PageToken(pageToken) when it is not ""
RequestToken(pageToken) == IF pageToken # EmptyToken THEN pageToken ELSE EmptyToken

\* (a mutant of Accumulate: the page replaces what was collected)
AccumulateLastPage(allFiles, page) == page

\* allFiles = append(allFiles, r.Files...)
Accumulate(allFiles, page) == allFiles \o page

\* (a mutant of LoopEnds: the loop stops after its first page)
LoopEndsAfterOnePage(nextPageToken) == TRUE

\* the exit of the loop: if pageToken == "" { break }
LoopEnds(nextPageToken) == nextPageToken = EmptyToken

\* (a mutant of FailedSearch: the items collected so far are returned)
FailedSearchPartial(allFiles) == allFiles

\* the items returned with the error of a failed page request: return nil, err
FailedSearch(allFiles) == <<>>

\* the handler of search_drive_items, SearchDriveItems up to its first
\* request; pages is what the backend holds for the query
HandleSearch(p, args, pages) ==
    LET query == RequireString(args, "query")
    IN  /\ Start(p, [kind |-> "search_drive_items", args |-> args], pages)
        /\ IF query.err # Nil
           THEN Return(p, ToolResultError(query.err))
           ELSE Goto(p, "search", [pageToken |-> EmptyToken, allFiles |-> <<>>])
        /\ UNCHANGED <<folders, files>>

\* one iteration of the loop: the page request and what follows it
SearchPage(p) ==
    /\ pc[p] = "search"
    /\ LET sent == RequestToken(loc[p].pageToken)
       IN  \E ok \in BOOLEAN :
              IF ok
              THEN LET r == ServePage(sent)
                       all == Accumulate(loc[p].allFiles, r.files)
                   IN  /\ Log(p, [op |-> "search", token |-> sent, ok |-> TRUE,
                                  out |-> r.files, next |-> r.nextPageToken])
                       /\ IF LoopEnds(r.nextPageToken)
                          THEN /\ Finish(p, req[p], all, Nil)
                               /\ loc' = [loc EXCEPT ![p] =
                                            [pageToken |-> r.nextPageToken, allFiles |-> all]]
                          ELSE Goto(p, "search", [pageToken |-> r.nextPageToken, allFiles |-> all])
              ELSE /\ Log(p, [op |-> "search", token |-> sent, ok |-> FALSE,
                              out |-> <<>>, next |-> EmptyToken])
                   /\ Finish(p, req[p], FailedSearch(loc[p].allFiles),
                             Wrap("unable to search drive items", <<RemoteErr>>))
                   /\ UNCHANGED loc
    /\ UNCHANGED <<folders, files, req, preLen, preFiles, srvPages>>

\* the items a search may find
Items == {"x", "y"}

\* the sequences over S of length at most n
SeqsUpTo(S, n) == UNION {[1..k -> S] : k \in 0..n}

\* what the backend may hold for a query: one page or more
PageSeqs == SeqsUpTo(SeqsUpTo(Items, MaxPageLen), MaxPages) \ {<<>>}

SearchArgs == {<<>>, [query |-> <<"q">>]}

\* the results of the searches made among the other tools
FewPageSeqs == { <<<<"x">>>>, <<<<"x">>, <<"y">>>> }

----------------------------------------------------------------------------
(* SuggestFolderForContent and its handler.  The function is called by the *)
(* handler in cmd/server/main.go; its body is described by the design      *)
(* document only.                                                          *)

\* strings.Contains
Contains(s, substr) ==
    \E i \in 0..(Len(s) - Len(substr)) : SubSeq(s, i + 1, i + Len(substr)) = substr

\* the ordered keyword rules
SuggestRules ==
    << [keyword |-> <<"r", "e", "p", "o", "r", "t">>, target |-> <<"R", "e", "p", "o", "r", "t", "s">>],
       [keyword |-> <<"p", "n", "g">>, target |-> <<"I", "m", "a", "g", "e", "s">>] >>

DefaultTarget == <<"M", "i", "s", "c", "e", "l", "l", "a", "n", "e", "o", "u", "s">>

\* (a mutant of SuggestTarget: the last matching rule wins)
SuggestTargetLastMatch(contentName) ==
    LET lower == ToLower(contentName)
        hits == {k \in 1..Len(SuggestRules) : Contains(lower, SuggestRules[k].keyword)}
    IN  IF hits = {} THEN DefaultTarget
        ELSE SuggestRules[CHOOSE k \in hits : \A m \in hits : k >= m].target

\* the target of the first rule whose keyword the lower-cased name contains
SuggestTarget(contentName) ==
    LET lower == ToLower(contentName)
        hits == {k \in 1..Len(SuggestRules) : Contains(lower, SuggestRules[k].keyword)}
    IN  IF hits = {} THEN DefaultTarget
        ELSE SuggestRules[CHOOSE k \in hits : \A m \in hits : k <= m].target

\* the handler of suggest_folder_for_content up to the first remote call:
\* the target is found or created under the root
HandleSuggest(p, args) ==
    LET r == [kind |-> "suggest_folder_for_content", args |-> args]
        name == RequireString(args, "content_name")
    IN  /\ Start(p, r, NoPages)
        /\ IF name.err # Nil THEN Return(p, ToolResultError(name.err))
           ELSE Advance(p, r, ResolveLocals(<<>>, SuggestTarget(name.val)), Root)
        /\ UNCHANGED <<folders, files>>

SuggestArgs ==
    {<<>>, [content_name |-> <<"R", "e", "p", "o", "r", "t">>], [content_name |-> <<"x", "y", "z">>]}

----------------------------------------------------------------------------
(* The specification of the tools, one invocation at a time. *)

NextTools ==
    \E p \in {"p1"} :
        \/ \E folderPath \in AnyFolderPaths : CallResolve(p, folderPath)
        \/ \E args \in FileArgs : HandleCreateFile(p, args)
        \/ \E args \in FileArgs : HandleCreateDocx(p, args)
        \/ HandleListRootFolders(p)
        \/ \E args \in FolderIdArgs : HandleListFilesAndFolders(p, args)
        \/ \E args \in ReadArgs : HandleReadFileContent(p, args)
        \/ \E args \in SummarizeArgs : HandleSummarize(p, args)
        \/ HandleListTools(p)
        \/ \E args \in SearchArgs, pages \in FewPageSeqs : HandleSearch(p, args, pages)
        \/ \E args \in SuggestArgs : HandleSuggest(p, args)
        \/ Find(p)
        \/ Mkdir(p, MaxToolFolders)
        \/ Mkfile(p)
        \/ ListRoot(p)
        \/ ListDir(p)
        \/ ReadCall(p)
        \/ ReadBody(p)
        \/ SearchPage(p)

SpecTools == Init /\ [][NextTools]_vars

----------------------------------------------------------------------------
(* The specification of the searches. *)

\* the backend holds any pages for the query
InitSearch == InitSlots /\ srvPages \in PageSeqs

NextSearch ==
    \E p \in {"p1"} :
        \/ \E args \in SearchArgs : HandleSearch(p, args, srvPages)
        \/ SearchPage(p)

SpecSearch == InitSearch /\ [][NextSearch]_vars

----------------------------------------------------------------------------
(* The specification of the folder suggestions. *)

\* content names: the examples of the design document, a name two rules
\* match and a name in capitals
SuggestExamples ==
    { <<"Q", "u", "a", "r", "t", "e", "r", "l", "y", " ", "R", "e", "p", "o", "r", "t", ".", "p", "d", "f">>,
      <<"p", "h", "o", "t", "o", ".", "p", "n", "g">>,
      <<"r", "a", "n", "d", "o", "m", "f", "i", "l", "e", ".", "x", "y", "z">>,
      <<"r", "e", "p", "o", "r", "t", ".", "p", "n", "g">>,
      <<"a", ".", "P", "N", "G">> }

NextSuggest ==
    \E p \in {"p1"} :
        \/ \E args \in SuggestArgs \cup {[content_name |-> x] : x \in SuggestExamples} :
              HandleSuggest(p, args)
        \/ Find(p)
        \/ Mkdir(p, MaxToolFolders)

SpecSuggest == Init /\ [][NextSuggest]_vars

----------------------------------------------------------------------------
(* Notions the claims are stated with. *)

\* a CommunicationError: an error whose innermost cause is a failed remote call
IsCommunicationError(err) == err # Nil /\ err[Len(err)] = RemoteErr

\* the folders, among the first n created, reached from parent by the chain
\* of names segs
RECURSIVE ChainIds(_, _, _)
ChainIds(n, segs, parent) ==
    IF segs = <<>> THEN {parent}
    ELSE UNION {ChainIds(n, Tail(segs), i) :
                  i \in {j \in 1..n : folders[j].name = Head(segs) /\ folders[j].parent = parent}}

\* no two of the first n folders share a name under the same parent
UniqueNames(n) ==
    \A i, j \in 1..n :
        (folders[i].name = folders[j].name /\ folders[i].parent = folders[j].parent) => i = j

\* the positions of the folder creations in the call log of slot p
MkdirCalls(p) == SelectSeq(calls[p], LAMBDA c : c.op = "mkdir")

IsResolve(p) == req[p].kind = "resolve"

\* the segments of the path slot p resolves
ReqSegs(p) == Segments(req[p].folderPath)

\* slot p has returned from a path resolution without an error
ResolvedOK(p) == IsResolve(p) /\ pc[p] = "done" /\ res[p].err = Nil

\* the folders created since slot p started are those its own log records
Alone(p) == Len(folders) = preLen[p] + Len(SelectSeq(MkdirCalls(p), LAMBDA c : c.ok))

----------------------------------------------------------------------------
(* Claims about path resolution, under Spec. *)

\* C1 (as claimed): when all segments of the path exist as a chain of
\* uniquely named folders when the resolution starts, the resolution issues
\* no folder creation and returns the leaf of that chain.
C1_ExistingPathCreatesNothing ==
    \A p \in Procs :
        (/\ IsResolve(p)
         /\ UniqueNames(preLen[p])
         /\ ChainIds(preLen[p], ReqSegs(p), Root) # {})
        => /\ MkdirCalls(p) = <<>>
           /\ pc[p] = "done" =>
                /\ res[p].err = Nil
                /\ res[p].val \in ChainIds(preLen[p], ReqSegs(p), Root)

\* the first k segments of slot p's path existed when it started, and
\* segment k + 1 did not
ExistingPrefix(p, k) ==
    /\ k < Len(ReqSegs(p))
    /\ ChainIds(preLen[p], SubSeq(ReqSegs(p), 1, k), Root) # {}
    /\ ChainIds(preLen[p], SubSeq(ReqSegs(p), 1, k + 1), Root) = {}

\* the creations of slot p are those of segments k + 1 .. n, in order, the
\* first under the leaf of the existing chain, each next one under the folder
\* created before it
CreatesExactlyMissing(p, k) ==
    LET segs == ReqSegs(p)
        mk == MkdirCalls(p)
    IN  /\ Len(mk) = Len(segs) - k
        /\ \A m \in 1..Len(mk) :
              /\ mk[m].name = segs[k + m]
              /\ mk[m].parent \in
                    (IF m = 1 THEN ChainIds(preLen[p], SubSeq(segs, 1, k), Root)
                     ELSE {mk[m - 1].out})
        /\ res[p].val = mk[Len(mk)].out

\* C2 (as claimed): a resolution that returns an identifier, started when
\* the first k segments existed (uniquely named) and the rest did not, and
\* during which no other request created a folder, has created exactly the
\* missing segments, in order, each under the previous one, and returns the
\* last folder it created.
C2_CreatesExactlyMissingSegments ==
    \A p \in Procs :
        \A k \in 0..2 :
            (/\ ResolvedOK(p)
             /\ UniqueNames(preLen[p])
             /\ Alone(p)
             /\ ExistingPrefix(p, k))
            => CreatesExactlyMissing(p, k)

\* C3 (as claimed): after a failed lookup or a failed creation the resolution
\* creates no folder for that segment, and once it has returned, it has
\* returned a communication error.
C3_FailedCallSurfacesError ==
    \A p \in Procs :
        IsResolve(p) =>
            \A k \in 1..Len(calls[p]) :
                ~calls[p][k].ok =>
                    /\ ~(/\ k < Len(calls[p])
                          /\ calls[p][k + 1].op = "mkdir"
                          /\ calls[p][k + 1].ok
                          /\ calls[p][k + 1].name = calls[p][k].name)
                    /\ pc[p] = "done" => IsCommunicationError(res[p].err)

\* folders i and j have the same name under the same parent
SameNameAndParent(i, j) ==
    folders[i].name = folders[j].name /\ folders[i].parent = folders[j].parent

\* C4: the lookup and the creation of a segment are two remote calls with
\* nothing held between them, so a folder created after a successful (empty)
\* lookup duplicates only folders that were stored after that lookup; two
\* resolutions of the same missing path that both look up before either
\* creates reach C4_DuplicateFolders.
C4_DuplicatesOnlyByRace ==
    \A p \in Procs :
        \A k \in 1..Len(calls[p]) :
            (/\ k < Len(calls[p])
             /\ calls[p][k].op = "list" /\ calls[p][k].ok
             /\ calls[p][k + 1].op = "mkdir" /\ calls[p][k + 1].ok)
            => \A j \in 1..(calls[p][k + 1].out - 1) :
                  SameNameAndParent(j, calls[p][k + 1].out) => j > calls[p][k].at

\* slot p looked up a segment at step k, found nothing, and created it
LookedUpThenCreated(p, k) ==
    /\ k < Len(calls[p])
    /\ calls[p][k].op = "list" /\ calls[p][k].ok /\ calls[p][k].out = <<>>
    /\ calls[p][k + 1].op = "mkdir" /\ calls[p][k + 1].ok

\* C4 (witness): two resolutions of the same path, no call of which failed,
\* both looked the segment up before either created it, and each created
\* its own folder of that name under the same parent.
C4_DuplicateFolders ==
    \E p, q \in Procs :
        /\ p # q
        /\ ResolvedOK(p) /\ ResolvedOK(q)
        /\ req[p].folderPath = req[q].folderPath
        /\ \A k \in 1..Len(calls[p]) : calls[p][k].ok
        /\ \A k \in 1..Len(calls[q]) : calls[q][k].ok
        /\ \E k \in 1..Len(calls[p]), m \in 1..Len(calls[q]) :
              /\ LookedUpThenCreated(p, k) /\ LookedUpThenCreated(q, m)
              /\ calls[p][k + 1].out # calls[q][m + 1].out
              /\ SameNameAndParent(calls[p][k + 1].out, calls[q][m + 1].out)
              /\ calls[p][k].at < calls[q][m + 1].out
              /\ calls[q][m].at < calls[p][k + 1].out

\* a step keeps every folder: same identifier, same name, same parent
FoldersPreserved ==
    /\ Len(folders') >= Len(folders)
    /\ \A i \in 1..Len(folders) : folders'[i] = folders[i]

\* C10: no step of a path resolution modifies, renames, re-parents or
\* deletes an existing folder; the folders only grow.
C10_ExistingFoldersUntouched == [][FoldersPreserved]_vars

\* C10 (witness): a resolution that started on a drive holding folders has
\* returned after creating a folder.
C10_CreatedBesideExisting ==
    \E p \in Procs :
        /\ ResolvedOK(p)
        /\ preLen[p] >= 1
        /\ \E k \in 1..Len(calls[p]) : calls[p][k].op = "mkdir" /\ calls[p][k].ok

----------------------------------------------------------------------------
(* Claims about the tools. *)

\* the request of slot p is a call of tool kind that passed the handler's
\* validation of the arguments keys
Validated(p, kind, keys) ==
    /\ req[p].kind = kind
    /\ \A k \in keys : k \in DOMAIN req[p].args

\* name does not end in ".docx", whatever the case of its letters
LacksDocxExtension(name) ==
    \/ Len(name) < Len(DocxExt)
    \/ \E i \in 1..Len(DocxExt) :
          LowerChar(name[Len(name) - Len(DocxExt) + i]) # DocxExt[i]

\* the call of slot p has made no remote call and left the backend as it was
NoRemoteCall(p) ==
    /\ calls[p] = <<>>
    /\ Len(folders) = preLen[p]
    /\ Len(files) = preFiles[p]

\* slot p asked for a .docx file under a name without the extension
DocxRejected(p) ==
    /\ Validated(p, "create_docx_file_in_path", {"path", "content"})
    /\ LacksDocxExtension(Base(req[p].args.path))

\* C5: create_docx_file_in_path with a file name that does not end in .docx
\* returns an error and makes no remote call: no folder lookup, no folder
\* creation, no file creation; the backend is unchanged
C5_BadExtensionMakesNoRemoteCall ==
    \A p \in Procs :
        DocxRejected(p) =>
            /\ pc[p] = "done"
            /\ res[p].set /\ res[p].err # Nil
            /\ ret[p].set /\ ret[p].isError
            /\ NoRemoteCall(p)

\* C5 happens: a name ending in "docx" without the dot is rejected on a
\* drive that holds folders
C5_RejectedOnUsedDrive ==
    \E p \in Procs :
        /\ DocxRejected(p)
        /\ HasSuffix(req[p].args.path, <<"d", "o", "c", "x">>)
        /\ pc[p] = "done"
        /\ Len(folders) > 0

\* the items of the logged page requests k..Len(log), in order
RECURSIVE Fetched(_, _)
Fetched(log, k) == IF k > Len(log) THEN <<>> ELSE log[k].out \o Fetched(log, k + 1)

\* the items of the pages k..Len(pages), in order
RECURSIVE Flatten(_, _)
Flatten(pages, k) == IF k > Len(pages) THEN <<>> ELSE pages[k] \o Flatten(pages, k + 1)

\* C6: search_drive_items passes each returned continuation token to the
\* next request and goes on until a page comes back with an empty token;
\* when every request succeeds the result is the concatenation of the items
\* of all pages in the order fetched, nothing dropped or duplicated
C6_SearchConcatenatesPages ==
    \A p \in Procs :
        Validated(p, "search_drive_items", {"query"}) =>
            LET log == calls[p]
                n == Len(log)
            IN  /\ \A k \in 1..n :
                      /\ log[k].token = IF k = 1 THEN EmptyToken ELSE log[k - 1].next
                      /\ k < n => log[k].ok /\ log[k].next # EmptyToken
                /\ pc[p] = "search" =>
                      /\ n > 0 => log[n].ok /\ log[n].next # EmptyToken
                      /\ loc[p].allFiles = Fetched(log, 1)
                /\ pc[p] = "done" =>
                      /\ n > 0
                      /\ res[p].set
                      /\ res[p].err = Nil <=> log[n].ok
                      /\ log[n].ok =>
                            /\ log[n].next = EmptyToken
                            /\ n = Len(srvPages)
                            /\ res[p].val = Fetched(log, 1)
                            /\ res[p].val = Flatten(srvPages, 1)

\* C6 happens: a search over two pages that hold items has returned
C6_TwoPagesFetched ==
    \E p \in Procs :
        /\ Validated(p, "search_drive_items", {"query"})
        /\ pc[p] = "done"
        /\ res[p].set /\ res[p].err = Nil
        /\ Len(calls[p]) = 2
        /\ calls[p][1].out # <<>> /\ calls[p][2].out # <<>>
        /\ calls[p][1].out # calls[p][2].out

\* the folder paths that name the root
RootPaths == {<<>>, <<Dot>>, <<Slash>>}

\* slot p creates a file whose path has no directory part
BareFile(p) ==
    /\ Validated(p, "create_file_in_path", {"path", "content"})
    /\ \A i \in 1..Len(req[p].args.path) : req[p].args.path[i] # Slash

\* C7: resolving the empty path, "." or "/" returns the root and makes no
\* folder lookup and no folder creation; so create_file_in_path with a bare
\* file name creates the file directly under the root
C7_RootPathsResolveToRoot ==
    \A p \in Procs :
        /\ IsResolve(p) /\ req[p].folderPath \in RootPaths =>
              /\ pc[p] = "done"
              /\ res[p].set /\ res[p].err = Nil /\ res[p].val = Root
              /\ NoRemoteCall(p)
        /\ BareFile(p) =>
              /\ pc[p] \in {"mkfile", "done"}
              /\ Len(folders) = preLen[p]
              /\ \A k \in 1..Len(calls[p]) :
                    calls[p][k].op = "mkfile" /\ calls[p][k].parent = Root
              /\ pc[p] = "done" =>
                    /\ Len(calls[p]) = 1
                    /\ res[p].set
                    /\ res[p].err = Nil =>
                          /\ Len(files) = preFiles[p] + 1
                          /\ files[res[p].val.id].parent = Root
                          /\ files[res[p].val.id].name = req[p].args.path

\* C7 happens: a bare file name has been created on a drive that holds
\* folders
C7_BareFileCreated ==
    \E p \in Procs :
        /\ BareFile(p)
        /\ pc[p] = "done"
        /\ res[p].set /\ res[p].err = Nil
        /\ Len(folders) > 0

\* the remote call the content type mimeType asks for
ExpectedRead(mimeType) ==
    IF mimeType = MimeGoogleDoc THEN "export"
    ELSE IF \/ mimeType \in {MimeDocx, MimePdf}
            \/ /\ Len(mimeType) >= Len(TextPrefix)
               /\ SubSeq(mimeType, 1, Len(TextPrefix)) = TextPrefix
    THEN "download"
    ELSE "unsupported"

C9_HandlersReturnPayloadAndNilError ==
    \A p \in Procs :
        pc[p] = "done" /\ IsTool(req[p]) =>
            /\ ret[p].set
            /\ ret[p].err = Nil
            /\ res[p].set =>
                  /\ ret[p].isError <=> res[p].err # Nil
                  /\ res[p].err # Nil => ret[p].payload = res[p].err

\* C9 happens: a handler has returned after a failed remote call
C9_RemoteFailureReturned ==
    \E p \in Procs :
        /\ pc[p] = "done" /\ IsTool(req[p])
        /\ res[p].set /\ IsCommunicationError(res[p].err)
        /\ calls[p] # <<>>
        /\ ret[p].set /\ ret[p].isError

----------------------------------------------------------------------------
(* Claims about the folder suggestion. *)

\* the target the design document gives the content name: the rules in
\* their order, on the lower-cased name
ExpectedTarget(contentName) ==
    LET lower == [i \in 1..Len(contentName) |-> LowerChar(contentName[i])]
    IN  IF Contains(lower, <<"r", "e", "p", "o", "r", "t">>)
        THEN <<"R", "e", "p", "o", "r", "t", "s">>
        ELSE IF Contains(lower, <<"p", "n", "g">>)
        THEN <<"I", "m", "a", "g", "e", "s">>
        ELSE <<"M", "i", "s", "c", "e", "l", "l", "a", "n", "e", "o", "u", "s">>

\* C11: the suggestion looks up (and creates, if missing) under the root the
\* target of the first rule whose keyword the lower-cased content name
\* contains, "Miscellaneous" when none matches; whatever the backend holds
\* and whatever was suggested before, the same name has the same target
C11_SuggestionIsFirstMatch ==
    \A p \in Procs :
        Validated(p, "suggest_folder_for_content", {"content_name"}) =>
            LET target == ExpectedTarget(req[p].args.content_name)
            IN  /\ pc[p] # "done" => loc[p].parts = <<target>>
                /\ \A k \in 1..Len(calls[p]) :
                      calls[p][k].name = target /\ calls[p][k].parent = Root
                /\ pc[p] = "done" /\ res[p].set /\ res[p].err = Nil =>
                      /\ folders[res[p].val].name = target
                      /\ folders[res[p].val].parent = Root

\* C11 happens: "Quarterly Report.pdf" has been given the folder "Reports"
C11_ReportSuggested ==
    \E p \in Procs :
        /\ Validated(p, "suggest_folder_for_content", {"content_name"})
        /\ req[p].args.content_name =
              <<"Q", "u", "a", "r", "t", "e", "r", "l", "y", " ", "R", "e", "p", "o", "r", "t", ".", "p", "d", "f">>
        /\ pc[p] = "done" /\ res[p].set /\ res[p].err = Nil
        /\ folders[res[p].val].name = <<"R", "e", "p", "o", "r", "t", "s">>

----------------------------------------------------------------------------
(* Claims about the course of a path resolution. *)

\* where a resolution of the segments segs stands after the remote calls
\* log[k..], when before them it was about to issue the call at ("find" or
\* "mkdir") for segment j under the folder cur: about to issue a call, done
\* with the identifier cur, failed, or "bad" when the log is not that of a
\* resolution of segs
RECURSIVE Walk(_, _, _, _, _, _)
Walk(log, k, segs, j, cur, at) ==
    LET bad == [at |-> "bad", j |-> j, cur |-> cur]
        after(id) ==
            IF j < Len(segs) THEN Walk(log, k + 1, segs, j + 1, id, "find")
            ELSE IF k = Len(log) THEN [at |-> "done", j |-> j + 1, cur |-> id]
            ELSE bad
    IN  IF j > Len(segs) THEN (IF k > Len(log) THEN [at |-> "done", j |-> j, cur |-> cur] ELSE bad)
        ELSE IF k > Len(log) THEN [at |-> at, j |-> j, cur |-> cur]
        ELSE IF log[k].name # segs[j] \/ log[k].parent # cur THEN bad
        ELSE IF at = "find"
        THEN IF log[k].op # "list" THEN bad
             ELSE IF log[k].ok /\ log[k].out # <<>> THEN after(log[k].out[1])
             ELSE Walk(log, k + 1, segs, j, cur, "mkdir")
        ELSE IF log[k].op # "mkdir" THEN bad
             ELSE IF log[k].ok THEN after(log[k].out)
             ELSE IF k = Len(log) THEN [at |-> "failed", j |-> j, cur |-> cur]
             ELSE bad

\* slot p stands where the calls it has made put a resolution of segs: at
\* the same call with the same arguments, or returned with the same result
StandsAt(p, segs) ==
    LET w == Walk(calls[p], 1, segs, 1, Root, "find")
    IN  /\ w.at # "bad"
        /\ w.at \in {"find", "mkdir"} =>
              /\ pc[p] = w.at
              /\ loc[p].parts[loc[p].i] = segs[w.j]
              /\ loc[p].cur = w.cur
        /\ w.at = "done" =>
              pc[p] = "done" /\ res[p].set /\ res[p].err = Nil /\ res[p].val = w.cur
        /\ w.at = "failed" =>
              pc[p] = "done" /\ res[p].set /\ res[p].err # Nil

\* "a/b" and the same path with a leading, a doubled and a trailing slash
SlashVariants ==
    { <<"a", "/", "b">>,
      <<"/", "a", "/", "b">>,
      <<"a", "/", "/", "b">>,
      <<"a", "/", "b", "/">> }

\* C12: empty path segments are skipped: "/a/b", "a//b" and "a/b/" are
\* resolved like "a/b": after the same answers to the same calls each of
\* them issues the same next call or returns the same identifier, and no
\* call names a folder with an empty name
C12_EmptySegmentsSkipped ==
    \A p \in Procs :
        /\ IsResolve(p) /\ req[p].folderPath \in SlashVariants =>
              StandsAt(p, <<<<"a">>, <<"b">>>>)
        /\ IsResolve(p) => \A k \in 1..Len(calls[p]) : calls[p][k].name # <<>>

\* C12 happens: "/a/b" has been resolved on a drive that held "a": "a" was
\* found and "b" created
C12_LeadingSlashResolved ==
    \E p \in Procs :
        /\ ResolvedOK(p)
        /\ req[p].folderPath = <<"/", "a", "/", "b">>
        /\ Len(calls[p]) = 3
        /\ calls[p][1].ok /\ calls[p][1].out # <<>>
        /\ calls[p][3].op = "mkdir" /\ calls[p][3].ok

\* call k of slot p is a lookup that listed at least one folder
Listed(p, k) == calls[p][k].op = "list" /\ calls[p][k].ok /\ calls[p][k].out # <<>>

\* after its lookup k slot p went on with the folder id and created nothing
\* for the segment: its next call, if any, is made under id and is not the
\* creation of a folder, and without a next call it stands or has returned
\* with id
DescendedInto(p, k, id) ==
    IF k < Len(calls[p])
    THEN calls[p][k + 1].op # "mkdir" /\ calls[p][k + 1].parent = id
    ELSE \/ pc[p] \in {"find", "mkfile"} /\ loc[p].cur = id
         \/ pc[p] = "done" /\ res[p].set /\ res[p].err = Nil /\ res[p].val = id

\* C13: when the lookup lists folders of the looked-up name, several of them
\* included, the resolution descends into the first item of the listing and
\* creates nothing for that segment
C13_FirstListedFolderTaken ==
    \A p \in Procs :
        IsResolve(p) =>
            \A k \in 1..Len(calls[p]) :
                Listed(p, k) => DescendedInto(p, k, calls[p][k].out[1])

\* C13 happens: two folders of the same name were listed, the newer one
\* first, and the resolution returned the newer one
C13_TieBrokenByListing ==
    \E p \in Procs :
        /\ ResolvedOK(p)
        /\ Len(calls[p]) = 1 /\ Listed(p, 1)
        /\ Len(calls[p][1].out) = 2
        /\ calls[p][1].out[1] > calls[p][1].out[2]
        /\ res[p].val = calls[p][1].out[1]

\* the lookups slot p has made, in order
LookupCalls(p) == SelectSeq(calls[p], LAMBDA c : c.op = "list")

\* C14: path resolution does not retry: it looks the segments up in order,
\* each one once, every creation directly follows the lookup of its segment
\* so that a segment has at most one, and a failed creation is the last
\* remote call before the error is returned
C14_NoRetry ==
    \A p \in Procs :
        IsResolve(p) =>
            LET segs == ReqSegs(p)
                lookups == LookupCalls(p)
                n == Len(calls[p])
            IN  /\ Len(lookups) <= Len(segs)
                /\ \A m \in 1..Len(lookups) : lookups[m].name = segs[m]
                /\ ResolvedOK(p) => Len(lookups) = Len(segs)
                /\ \A k \in 1..n :
                      calls[p][k].op = "mkdir" =>
                          /\ k > 1
                          /\ calls[p][k - 1].op = "list"
                          /\ calls[p][k - 1].name = calls[p][k].name
                          /\ calls[p][k - 1].parent = calls[p][k].parent
                          /\ ~calls[p][k].ok =>
                                /\ k = n
                                /\ pc[p] = "done"
                                /\ res[p].set /\ IsCommunicationError(res[p].err)

\* C14 happens: the creation of "b" failed after "a" was created, and the
\* resolution returned the error after these four calls
C14_FailedCreationReturned ==
    \E p \in Procs :
        /\ IsResolve(p) /\ pc[p] = "done"
        /\ Len(ReqSegs(p)) = 2
        /\ Len(calls[p]) = 4
        /\ calls[p][2].op = "mkdir" /\ calls[p][2].ok
        /\ calls[p][4].op = "mkdir" /\ ~calls[p][4].ok
        /\ res[p].set /\ res[p].err # Nil

----------------------------------------------------------------------------
(* Further claims about the search. *)

\* C15: a search has no partial result: a failed page request, the first or
\* one after pages that succeeded, is the last request of the search, which
\* returns the error and no item; the handler's payload is the error
C15_NoPartialResult ==
    \A p \in Procs :
        Validated(p, "search_drive_items", {"query"}) =>
            \A k \in 1..Len(calls[p]) :
                ~calls[p][k].ok =>
                    /\ k = Len(calls[p])
                    /\ pc[p] = "done"
                    /\ res[p].set
                    /\ IsCommunicationError(res[p].err)
                    /\ res[p].val = <<>>
                    /\ ret[p].set /\ ret[p].isError /\ ret[p].payload = res[p].err

\* C15 happens: the second page request failed after a first page with items
C15_FailedAfterFirstPage ==
    \E p \in Procs :
        /\ Validated(p, "search_drive_items", {"query"})
        /\ pc[p] = "done"
        /\ Len(calls[p]) = 2
        /\ calls[p][1].ok /\ calls[p][1].out # <<>>
        /\ ~calls[p][2].ok
        /\ loc[p].allFiles # <<>>
        /\ res[p].set /\ res[p].val = <<>>

----------------------------------------------------------------------------
(* Claims about the creation of files. *)

\* slot p runs a file creation that passed the validation of its arguments
CreatesFile(p) ==
    \/ Validated(p, "create_file_in_path", {"path", "content"})
    \/ /\ Validated(p, "create_docx_file_in_path", {"path", "content"})
       /\ ~DocxRejected(p)

\* what follows the last slash of path
LastComponent(path) == SubSeq(path, LastSlash(path) + 1, Len(path))

\* the file-creation calls slot p has made
MkfileCalls(p) == SelectSeq(calls[p], LAMBDA c : c.op = "mkfile")

\* C16: a file creation issues its Files.Create of the file only after the
\* folder resolution has returned an identifier, once, as its last call,
\* with the base name of the path and that identifier as the parent; after
\* a failed resolution it issues none
C16_FileCreatedAfterResolution ==
    \A p \in Procs :
        CreatesFile(p) =>
            LET n == Len(calls[p])
                segs == Segments(Dir(req[p].args.path))
                resolution == IF n > 0 /\ calls[p][n].op = "mkfile"
                              THEN SubSeq(calls[p], 1, n - 1) ELSE calls[p]
                w == Walk(resolution, 1, segs, 1, Root, "find")
            IN  /\ Len(MkfileCalls(p)) <= 1
                /\ w.at # "bad"
                /\ pc[p] = "mkfile" => MkfileCalls(p) = <<>> /\ w.at = "done"
                /\ w.at # "done" => MkfileCalls(p) = <<>>
                /\ w.at = "failed" => pc[p] = "done" /\ res[p].set /\ res[p].err # Nil
                /\ MkfileCalls(p) # <<>> =>
                      /\ calls[p][n].name = LastComponent(req[p].args.path)
                      /\ calls[p][n].parent = w.cur
                      /\ pc[p] = "done"
                /\ pc[p] = "done" /\ res[p].set /\ res[p].err = Nil =>
                      /\ Len(MkfileCalls(p)) = 1
                      /\ Len(files) = preFiles[p] + 1
                      /\ files[res[p].val.id].name = LastComponent(req[p].args.path)
                      /\ files[res[p].val.id].parent = w.cur

\* C16 happens: "a/f.txt" has been created in the folder "a" that its own
\* resolution created
C16_FileCreatedInNewFolder ==
    \E p \in Procs :
        /\ Validated(p, "create_file_in_path", {"path", "content"})
        /\ pc[p] = "done" /\ res[p].set /\ res[p].err = Nil
        /\ Len(calls[p]) = 3
        /\ calls[p][2].op = "mkdir" /\ calls[p][2].ok
        /\ files[res[p].val.id].parent = calls[p][2].out
        /\ files[res[p].val.id].parent # Root

----------------------------------------------------------------------------
(* Claims about concurrent and repeated resolutions. *)

\* the names of the folders from the root down to the folder id
RECURSIVE NameChain(_)
NameChain(id) ==
    IF id = Root THEN <<>>
    ELSE Append(NameChain(folders[id].parent), folders[id].name)

\* no remote call of slot p has failed
NoCallFailed(p) == \A k \in 1..Len(calls[p]) : calls[p][k].ok

\* C17: however concurrent resolutions interleave, a resolution that returns
\* an identifier returns a folder whose names from the root down are the
\* non-empty segments of its path, in order (this holds of every returned
\* identifier, also when one of its lookups failed)
C17_ReturnedFolderSpellsPath ==
    \A p \in Procs :
        ResolvedOK(p) => NameChain(res[p].val) = ReqSegs(p)

\* C17 happens: two interleaved resolutions of "a/b", no call of which
\* failed, have returned different folders, both spelled a, b
C17_BothSpellPath ==
    \E p, q \in Procs :
        /\ ResolvedOK(p) /\ ResolvedOK(q)
        /\ NoCallFailed(p) /\ NoCallFailed(q)
        /\ Len(ReqSegs(p)) = 2 /\ ReqSegs(q) = ReqSegs(p)
        /\ res[p].val # res[q].val
        /\ NameChain(res[p].val) = ReqSegs(p)
        /\ NameChain(res[q].val) = ReqSegs(q)

\* drives a pair of resolutions may start on: empty, "a", "a" with "b" in
\* it, and two folders "a" under the root, as concurrent resolutions leave
\* them
TwiceDrives ==
    { <<>>,
      <<[name |-> <<"a">>, parent |-> Root]>>,
      <<[name |-> <<"a">>, parent |-> Root], [name |-> <<"b">>, parent |-> 1]>>,
      <<[name |-> <<"a">>, parent |-> Root], [name |-> <<"a">>, parent |-> Root]>> }

InitTwice ==
    /\ folders \in TwiceDrives
    /\ files = <<>>
    /\ pc = [p \in Procs |-> "idle"]
    /\ req = [p \in Procs |-> NoReq]
    /\ loc = [p \in Procs |-> NoLoc]
    /\ calls = [p \in Procs |-> <<>>]
    /\ res = [p \in Procs |-> NoRes]
    /\ ret = [p \in Procs |-> NoRes]
    /\ preLen = [p \in Procs |-> 0]
    /\ preFiles = [p \in Procs |-> 0]
    /\ srvPages = NoPages

\* a resolution on slot p1, as long as none has run on slot p2
First(folderPath) ==
    /\ pc["p2"] = "idle"
    /\ CallResolve("p1", folderPath)

\* one resolution on slot p2, once the one on slot p1 has returned
Second(folderPath) ==
    /\ pc["p1"] = "done"
    /\ pc["p2"] = "idle"
    /\ CallResolve("p2", folderPath)

\* resolutions one after the other: those of slot p1, then one of slot p2,
\* which follows the last of slot p1 with no request in between
NextTwice ==
    \/ \E folderPath \in ResolvePaths : First(folderPath)
    \/ \E folderPath \in ResolvePaths : Second(folderPath)
    \/ \E p \in Procs : Find(p)
    \/ \E p \in Procs : Mkdir(p, MaxTwiceFolders)

SpecTwice == InitTwice /\ [][NextTwice]_vars

\* slot p2 has resolved the path slot p1 resolved right before it, and no
\* remote call of either failed
ResolvedTwice ==
    /\ ResolvedOK("p1") /\ ResolvedOK("p2")
    /\ req["p2"].folderPath = req["p1"].folderPath
    /\ NoCallFailed("p1") /\ NoCallFailed("p2")

\* the second resolution created nothing and left the folders as they were
SecondCreatesNothing ==
    /\ MkdirCalls("p2") = <<>>
    /\ Len(folders) = preLen["p2"]

\* C18 (as claimed): resolving the same path a second time, with no failed
\* call and no request in between, creates no folder and returns the
\* identifier the first resolution returned
C18_SecondResolutionSame ==
    ResolvedTwice =>
        /\ SecondCreatesNothing
        /\ res["p2"].val = res["p1"].val

\* C18 (amended): when, besides, no two folders shared a name under the
\* same parent, the second resolution creates no folder, leaves the tree as
\* the first left it and returns the identifier the first returned
C18_IdempotentOnUniqueNames ==
    ResolvedTwice /\ UniqueNames(preLen["p1"]) =>
        /\ SecondCreatesNothing
        /\ res["p2"].val = res["p1"].val

\* C18 happens: on a drive without duplicate names the first resolution
\* created "a" and "b", the second found both and returned the same "b"
C18_SecondFoundBoth ==
    /\ ResolvedTwice
    /\ UniqueNames(preLen["p1"])
    /\ Len(ReqSegs("p1")) = 2
    /\ Len(MkdirCalls("p1")) = 2
    /\ Len(calls["p2"]) = 2
    /\ res["p2"].val = res["p1"].val

----------------------------------------------------------------------------
(* Claims about what a failed call leaves behind. *)

\* slot p runs a path resolution, directly or for a file creation
Resolves(p) == IsResolve(p) \/ CreatesFile(p)

\* the folders slot p has created, in order
CreatedFolders(p) == SelectSeq(calls[p], LAMBDA c : c.op = "mkdir" /\ c.ok)

\* every folder slot p has created is in the backend, as created, and
\* nothing but these was added or removed since the call started
CreatedFoldersStay(p) ==
    /\ Len(folders) = preLen[p] + Len(CreatedFolders(p))
    /\ \A m \in 1..Len(CreatedFolders(p)) :
          LET c == CreatedFolders(p)[m]
          IN  /\ c.out = preLen[p] + m
              /\ folders[c.out] = [name |-> c.name, parent |-> c.parent]

\* C19: there is no rollback: after the creation of a segment, or the final
\* creation of the file, has failed, the folders the call created before
\* are still in the backend and the caller has only the error: no
\* identifier and no file
C19_NoRollback ==
    \A p \in Procs :
        Resolves(p) /\ pc[p] = "done" /\ res[p].set /\ res[p].err # Nil =>
            /\ CreatedFoldersStay(p)
            /\ res[p].val = <<>>
            /\ Len(files) = preFiles[p]
            /\ \A k \in 1..Len(calls[p]) : calls[p][k].op \in {"list", "mkdir", "mkfile"}

\* C19 happens: in a resolution the creation of "b" failed after "a" was
\* created, and "a" is in the backend
C19_SegmentLeftBehind ==
    \E p \in Procs :
        /\ IsResolve(p) /\ pc[p] = "done" /\ res[p].set /\ res[p].err # Nil
        /\ Len(calls[p]) = 4
        /\ calls[p][2].op = "mkdir" /\ calls[p][2].ok
        /\ calls[p][4].op = "mkdir" /\ ~calls[p][4].ok
        /\ Len(folders) = preLen[p] + 1
        /\ folders[calls[p][2].out].name = <<"a">>

----------------------------------------------------------------------------
(* Termination of the search.  The loop runs on: a page request that can  *)
(* be made is made, and the backend answers it.                            *)

SpecSearchFair == SpecSearch /\ \A p \in Procs : WF_vars(SearchPage(p))

\* a search that has returned stopped on one of the two events: its last
\* page request failed, or was answered with the empty token; it has
\* requested every page before, however many
StoppedOnEvent(p) ==
    LET n == Len(calls[p])
    IN  /\ n > 0
        /\ \/ ~calls[p][n].ok
           \/ calls[p][n].ok /\ calls[p][n].next = EmptyToken /\ n = Len(srvPages)
        /\ \A k \in 1..(n - 1) : calls[p][k].ok /\ calls[p][k].next # EmptyToken

\* C20: a search whose backend holds finitely many pages returns, and it
\* stops only when a page request fails or is answered with the empty
\* token: the loop has no page limit of its own
C20_SearchTerminates ==
    /\ \A p \in Procs : (pc[p] = "search") ~> (pc[p] = "done")
    /\ [](\A p \in Procs :
            Validated(p, "search_drive_items", {"query"}) /\ pc[p] = "done"
                => StoppedOnEvent(p))

\* C20 happens: the search went on after a first page without items and
\* returned when the last page the backend holds was answered
C20_WentOnAfterEmptyPage ==
    \E p \in Procs :
        /\ Validated(p, "search_drive_items", {"query"})
        /\ pc[p] = "done" /\ res[p].set /\ res[p].err = Nil
        /\ Len(srvPages) = MaxPages
        /\ Len(calls[p]) = MaxPages
        /\ calls[p][1].out = <<>>

----------------------------------------------------------------------------
(* FindFileIDByName and UpdateDocxFileContent (pkg/driveapi/files.go).  No  *)
(* handler calls the update; it is a function of the package.              *)

\* (a mutant of MatchingFiles: the query does not name the parent)
MatchingFilesAnywhere(fileName, parentID) ==
    {i \in 1..Len(files) : files[i].name = fileName}

\* the files the lookup's query selects: that name, under that parent;
\* folders are not among the files
MatchingFiles(fileName, parentID) ==
    {i \in 1..Len(files) : files[i].name = fileName /\ files[i].parent = parentID}

\* what the backend may answer to the file lookup: a failure, or the
\* matching files in any order
FileListOutcomes(fileName, parentID) ==
    {[ok |-> FALSE, files |-> <<>>]}
    \cup {[ok |-> TRUE, files |-> l] : l \in Perms(MatchingFiles(fileName, parentID))}

\* FindFileIDByName, given the backend's answer r
FindFileIDByName(r) ==
    IF ~r.ok THEN [id |-> 0, err |-> Wrap("unable to retrieve files", <<RemoteErr>>)]
    ELSE IF Len(r.files) = 0 THEN [id |-> 0, err |-> <<"file not found in parent">>]
    ELSE [id |-> r.files[1], err |-> Nil]

\* a direct call UpdateDocxFileContent(filePath, content), up to its first
\* remote call
CallUpdate(p, filePath, content) ==
    LET r == [kind |-> "update_docx", args |-> [path |-> filePath, content |-> content]]
    IN  /\ Start(p, r, NoPages)
        /\ IF ~HasDocxExtension(Base(filePath))
           THEN /\ Finish(p, r, <<>>, <<"file name must have a .docx extension">>)
                /\ loc' = [loc EXCEPT ![p] = NoLoc]
           ELSE Advance(p, r, ResolveLocals(Base(filePath), Dir(filePath)), Root)
        /\ UNCHANGED <<folders, files>>

\* FindFileIDByName(fileName, parentID) and what follows it
FindFile(p) ==
    /\ pc[p] = "findfile"
    /\ \E r \in FileListOutcomes(loc[p].fileName, loc[p].cur) :
          LET f == FindFileIDByName(r)
          IN  /\ Log(p, Call("findfile", loc[p].fileName, loc[p].cur, r.ok, r.files))
              /\ IF f.err # Nil
                 THEN /\ Finish(p, req[p], <<>>, Wrap("failed to find docx file", f.err))
                      /\ UNCHANGED loc
                 ELSE /\ pc' = [pc EXCEPT ![p] = "update"]
                      /\ loc' = [loc EXCEPT ![p] =
                                   [fileName |-> loc[p].fileName, cur |-> loc[p].cur, fileID |-> f.id]]
                      /\ UNCHANGED <<res, ret>>
    /\ UNCHANGED <<folders, files, req, preLen, preFiles, srvPages>>

\* the file fileID after Files.Update with the metadata and media of r
UpdatedFiles(r, l) ==
    [files EXCEPT ![l.fileID] =
        [name |-> l.fileName, parent |-> @.parent, mime |-> MimeDocx,
         content |-> r.args.content]]

\* the Files.Update call and the return
UpdateFile(p) ==
    /\ pc[p] = "update"
    /\ \E ok \in BOOLEAN :
          IF ok
          THEN /\ files' = UpdatedFiles(req[p], loc[p])
               /\ Log(p, Call("update", loc[p].fileName, loc[p].cur, TRUE, loc[p].fileID))
               /\ Finish(p, req[p], [id |-> loc[p].fileID, name |-> loc[p].fileName], Nil)
          ELSE /\ Log(p, Call("update", loc[p].fileName, loc[p].cur, FALSE, loc[p].fileID))
               /\ Finish(p, req[p], <<>>, Wrap("unable to update file", <<RemoteErr>>))
               /\ UNCHANGED files
    /\ UNCHANGED <<folders, req, loc, preLen, preFiles, srvPages>>

\* the paths of the updates, and the content they write
UpdatePaths ==
    { <<"f", ".", "d", "o", "c", "x">>,
      <<"a", "/", "f", ".", "d", "o", "c", "x">>,
      <<"a", "/", "f", ".", "t", "x", "t">> }

NewContent == <<"y", "o">>

\* the files the updates may find: those create_docx_file_in_path made
CreateArgs ==
    { [path |-> <<"f", ".", "d", "o", "c", "x">>, content |-> Content],
      [path |-> <<"a", "/", "f", ".", "d", "o", "c", "x">>, content |-> Content] }

\* updates and file creations, one call at a time
NextUpdate ==
    \E p \in {"p1"} :
        \/ \E filePath \in UpdatePaths : CallUpdate(p, filePath, NewContent)
        \/ \E args \in CreateArgs : HandleCreateDocx(p, args)
        \/ Find(p)
        \/ Mkdir(p, MaxToolFolders)
        \/ Mkfile(p)
        \/ FindFile(p)
        \/ UpdateFile(p)

SpecUpdate == Init /\ [][NextUpdate]_vars

----------------------------------------------------------------------------
(* C21                                                                      *)

\* slot p runs, or has run, UpdateDocxFileContent
Updates(p) == req[p].kind = "update_docx"

\* the k-th call of slot p is a file lookup that found nothing or failed
LookupFoundNothing(p, k) ==
    /\ calls[p][k].op = "findfile"
    /\ ~calls[p][k].ok \/ calls[p][k].out = <<>>

\* the k-th call of slot p, an update, targets the first file that the call
\* before it, a lookup of the file's name in the folder the path resolved
\* to, returned
UpdateFollowsLookup(p, k) ==
    /\ k > 1
    /\ LET f == calls[p][k - 1]
           u == calls[p][k]
           w == Walk(SubSeq(calls[p], 1, k - 2), 1,
                     Segments(Dir(req[p].args.path)), 1, Root, "find")
       IN  /\ f.op = "findfile"
           /\ f.ok
           /\ f.out # <<>>
           /\ f.name = Base(req[p].args.path)
           /\ w.at = "done"
           /\ f.parent = w.cur
           /\ u.out = f.out[1]
           /\ u.out \in 1..preFiles[p]
           /\ files[u.out].parent = f.parent

\* C21: UpdateDocxFileContent never creates a file: the drive holds the files
\* it held when the call started and the call makes no file creation; each
\* update call it makes comes right after a successful, non-empty lookup of
\* the file in the folder the path resolved to and targets the first
\* identifier of that lookup; and a lookup that finds nothing (or fails) is
\* the call's last remote call, the call returning an error.
C21_UpdateNeverCreates ==
    \A p \in Procs :
        Updates(p) =>
            /\ Len(files) = preFiles[p]
            /\ \A k \in 1..Len(calls[p]) :
                  /\ calls[p][k].op # "mkfile"
                  /\ calls[p][k].op = "update" => UpdateFollowsLookup(p, k)
                  /\ LookupFoundNothing(p, k) =>
                        /\ k = Len(calls[p])
                        /\ pc[p] = "done"
                        /\ res[p].err # Nil
                        /\ calls[p][k].ok => ~IsCommunicationError(res[p].err)

\* C21 (witness): an update has returned file-not-found after its path
\* resolution created a folder, and made no update call
C21_NotFoundAfterFolderCreated ==
    \E p \in Procs :
        /\ Updates(p)
        /\ pc[p] = "done"
        /\ res[p].err # Nil
        /\ Len(calls[p]) > 1
        /\ LookupFoundNothing(p, Len(calls[p]))
        /\ calls[p][Len(calls[p])].ok
        /\ \E k \in 1..Len(calls[p]) : calls[p][k].op = "mkdir" /\ calls[p][k].ok
        /\ Len(folders) > preLen[p]
        /\ \A k \in 1..Len(calls[p]) : calls[p][k].op # "update"

============================================================================
